---------------------------- MODULE Spec2Model ----------------------------
(***************************************************************************)
(* A model of the VnStock financial agent: the /chat orchestration         *)
(* workflow of app/main.py (classify, decompose, run sub-queries, combine) *)
(* and the tool entry points of app/tools.py.                              *)
(*                                                                         *)
(* Python values are records tagged by their type in field t.  A Python    *)
(* str is a sequence of tokens, so that concatenation, f-strings and str() *)
(* are computed and never the identity.  The Vietnamese texts of the       *)
(* program are written here without their diacritics.                      *)
(*                                                                         *)
(* Spec is one handler serving requests one after the other, SpecConc is   *)
(* NumRequests handlers interleaved at their awaits, SpecTools is the      *)
(* execution of the tools.                                                 *)
(***************************************************************************)
EXTENDS Integers, Sequences, FiniteSets, TLC

\* ------------------------------------------------------------------ bounds

\* The longest sub-query list the Decomposition chain returns in the model.
MaxSubQueries == 2

\* The /chat requests in flight at the same time.
NumRequests == 2

\* ----------------------------------------------------------- Python values

PNone == [t |-> "NoneType"]
PObject == [t |-> "object"]
PStr(s) == [t |-> "str", s |-> s]
PInt(n) == [t |-> "int", n |-> n]
PList(l) == [t |-> "list", l |-> l]
PDict(d) == [t |-> "dict", d |-> d]
\* A message object of the agent framework: it has a .content attribute.
PMessage(role, content) == [t |-> "message", role |-> role, content |-> content]

EmptyDict == PDict([k \in {} |-> PNone])

IsStr(v) == v.t = "str"
IsDict(v) == v.t = "dict"
IsList(v) == v.t = "list"

\* The order in which the keys of a dict are printed.
KeyOrder == <<"messages", "output", "role", "content", "type", "text">>

RECURSIVE Repr(_)
RECURSIVE ReprItems(_)
RECURSIVE ReprKeys(_, _)
\* Python's repr(v), as tokens.
Repr(v) ==
    CASE v.t = "str" -> <<"'">> \o v.s \o <<"'">>
      [] v.t = "NoneType" -> <<"None">>
      [] v.t = "int" -> <<ToString(v.n)>>
      [] v.t = "object" -> <<"<object object>">>
      [] v.t = "list" -> <<"[">> \o ReprItems(v.l) \o <<"]">>
      [] v.t = "dict" -> <<"{">> \o ReprKeys(v.d, KeyOrder) \o <<"}">>
      [] v.t = "message" -> <<v.role, "(content=">> \o Repr(v.content) \o <<")">>

ReprItems(l) ==
    IF l = << >> THEN << >>
    ELSE Repr(Head(l)) \o (IF Len(l) > 1 THEN <<", ">> ELSE << >>) \o ReprItems(Tail(l))

ReprKeys(d, keys) ==
    IF keys = << >> THEN << >>
    ELSE (IF Head(keys) \in DOMAIN d
            THEN <<"'", Head(keys), "': ">> \o Repr(d[Head(keys)]) \o <<"; ">>
            ELSE << >>)
         \o ReprKeys(d, Tail(keys))

\* Python's str(v): a str is itself, anything else prints as its repr.
Str(v) == IF IsStr(v) THEN v ELSE PStr(Repr(v))

\* type(v), as it prints in an f-string.
TypeName(v) == <<"<class '", v.t, "'>">>

\* The outcome of evaluating an expression: a value, or a raised exception.
Ok(v) == [exc |-> "none", v |-> v]
Raise(e) == [exc |-> e, v |-> PNone]

\* `key in c`
PyIn(key, c) ==
    CASE c.t = "dict" -> Ok(key \in DOMAIN c.d)
      [] c.t = "list" -> Ok(\E i \in 1..Len(c.l) : c.l[i] = PStr(<<key>>))
      [] c.t = "str" -> Ok(\E i \in 1..Len(c.s) : c.s[i] = key)
      [] OTHER -> Raise("TypeError")

\* `len(c)`
PyLen(c) ==
    CASE c.t = "dict" -> Ok(Cardinality(DOMAIN c.d))
      [] c.t = "list" -> Ok(Len(c.l))
      [] c.t = "str" -> Ok(Len(c.s))
      [] OTHER -> Raise("TypeError")

\* `c[key]` with a str key
PyGetKey(c, key) ==
    CASE c.t = "dict" -> IF key \in DOMAIN c.d THEN Ok(c.d[key]) ELSE Raise("KeyError")
      [] OTHER -> Raise("TypeError")

\* `c[-1]`
PyGetLast(c) ==
    CASE c.t = "list" -> IF Len(c.l) > 0 THEN Ok(c.l[Len(c.l)]) ELSE Raise("IndexError")
      [] c.t = "str" -> IF Len(c.s) > 0 THEN Ok(PStr(<<c.s[Len(c.s)]>>)) ELSE Raise("IndexError")
      [] c.t = "dict" -> Raise("KeyError")
      [] OTHER -> Raise("TypeError")


\* ------------------------------------------- answer extraction (main.py)

\* main.py 128-133: the content of the last message.
MessageContent(last_message) ==
    IF last_message.t = "message" THEN Ok(last_message.content)
    ELSE IF IsDict(last_message) /\ "content" \in DOMAIN last_message.d
           THEN Ok(last_message.d["content"])
    ELSE Ok(Str(last_message))

\* main.py 136-145: the output taken from a message's content.
ContentOutput(content) ==
    IF IsList(content) /\ Len(content.l) > 0
      THEN IF IsDict(content.l[1]) /\ "text" \in DOMAIN content.l[1].d
             THEN Ok(content.l[1].d["text"])
             ELSE Ok(Str(content.l[1]))
    ELSE IF IsStr(content) THEN Ok(content)
    ELSE Ok(Str(content))

\* main.py 124-149: the body of the try block of the simple path.
SimpleExtractBody(result) ==
    LET has_messages == PyIn("messages", result) IN
    IF has_messages.exc # "none" THEN Raise(has_messages.exc)
    ELSE LET messages == IF has_messages.v THEN PyGetKey(result, "messages") ELSE Ok(PNone)
             n == IF has_messages.v /\ messages.exc = "none" THEN PyLen(messages.v) ELSE Ok(0)
         IN
         IF messages.exc # "none" THEN Raise(messages.exc)
         ELSE IF n.exc # "none" THEN Raise(n.exc)
         ELSE IF has_messages.v /\ n.v > 0
           THEN LET last_message == PyGetLast(messages.v) IN
                IF last_message.exc # "none" THEN Raise(last_message.exc)
                ELSE ContentOutput(MessageContent(last_message.v).v)
         ELSE LET has_output == PyIn("output", result) IN
              IF has_output.exc # "none" THEN Raise(has_output.exc)
              ELSE IF has_output.v THEN PyGetKey(result, "output")
              ELSE Ok(Str(result))

\* main.py 150-152: the exceptions the simple path recovers from.
SimpleCaught == {"KeyError", "IndexError", "AttributeError"}

\* main.py 152: the diagnostic string of the except clause.
SimpleDiagnostic(e, result) ==
    PStr(<<"Error extracting response: ", e, ". Result structure: ">> \o TypeName(result))

\* A handler that passes the value on as it is.
EnsureStr_Identity(v) == v

\* main.py 155-156 and 93-94, 107-108: `if not isinstance(x, str): x = str(x)`.
EnsureStr(v) == IF IsStr(v) THEN v ELSE Str(v)

\* main.py 123-156: the simple path's extraction; an exception that the except
\* clause does not name leaves the handler.
SimpleExtract(result) ==
    LET body == SimpleExtractBody(result) IN
    IF body.exc = "none" THEN Ok(EnsureStr(body.v))
    ELSE IF body.exc \in SimpleCaught THEN Ok(EnsureStr(SimpleDiagnostic(body.exc, result)))
    ELSE Raise(body.exc)

\* main.py 84-94: the complex path's extraction of one result.  Every
\* exception is caught there (`except Exception`).
ComplexExtractBody(result) ==
    IF IsDict(result)
      THEN IF "output" \in DOMAIN result.d THEN Ok(result.d["output"]) ELSE Ok(Str(result))
      ELSE Ok(Str(result))

ComplexExtract(i, result) ==
    LET body == ComplexExtractBody(result) IN
    IF body.exc = "none" THEN Ok(EnsureStr(body.v))
    ELSE Ok(EnsureStr(PStr(<<"Error extracting result ", ToString(i), ": ", body.exc>>)))

\* Labels counted from 0, as enumerate(results) without its start would.
FormatBlock_ZeroIndexed(i, output) ==
    <<"Ket qua ", ToString(i - 1), ":\n">> \o output.s \o <<"\n\n">>

\* main.py 96: one labelled block, f"Ket qua {i}:\n{output}\n\n".
FormatBlock(i, output) ==
    <<"Ket qua ", ToString(i), ":\n">> \o output.s \o <<"\n\n">>

RECURSIVE FormatFrom(_, _)
\* main.py 81-96: the loop `for i, result in enumerate(results, 1)` from i on.
FormatFrom(i, results) ==
    IF i > Len(results) THEN << >>
    ELSE FormatBlock(i, ComplexExtract(i, results[i]).v) \o FormatFrom(i + 1, results)

\* main.py 80-96: formatted_results.
FormatResults(results) == PStr(FormatFrom(1, results))


\* main.py 19-21: ChatResponse(output=...) validates that output is a str.
ChatResponse(output) ==
    IF IsStr(output) THEN Ok([output |-> output]) ELSE Raise("ValidationError")

\* ------------------------------------------------- inputs of the /chat model

\* Request bodies: ChatRequest.input.
Queries == {PStr(<<"So sanh VIC va VHM">>), PStr(<<"Gia VCB hom nay?">>)}

\* Sub-queries the Decomposition chain may return.
SubQueryTexts == {PStr(<<"OHLCV cua VIC">>), PStr(<<"RSI cua VHM">>)}

RECURSIVE SeqsUpTo(_, _)
SeqsUpTo(S, n) ==
    IF n = 0 THEN {<< >>}
    ELSE LET shorter == SeqsUpTo(S, n - 1) IN
         shorter \cup {Append(q, x) : q \in {r \in shorter : Len(r) = n - 1}, x \in S}

SubQueryLists == SeqsUpTo(SubQueryTexts, MaxSubQueries)

\* Text a tool returns (a JSON record set, or a localized error message).
ToolResults == {PStr(<<"[{time, close}]">>), PStr(<<"Khong tim thay du lieu">>)}

\* An invocation that carries an earlier turn before the question.
AgentInput_WithHistory(content) ==
    PDict("messages" :> PList(<<PDict("role" :> PStr(<<"assistant">>) @@ "content" :> PStr(<< >>)),
                                PDict("role" :> PStr(<<"user">>) @@ "content" :> content)>>))

\* main.py 74-76 and 116-118: the input of an agent invocation.
AgentInput(content) ==
    PDict("messages" :> PList(<<PDict("role" :> PStr(<<"user">>) @@ "content" :> content)>>))

\* The values an agent invocation may return for the question `content`: the
\* message-list state of the agent framework (ending in a tool message, in a
\* model message with text or block content, or in a plain dict), the legacy
\* flat 'output' field, and the degenerate shapes.
AgentResults(content) ==
    LET human == PMessage("human", content)
        call == PMessage("ai", PStr(<< >>))
        state(last) == PDict("messages" :> PList(<<human, call, last>>))
    IN  {state(PMessage("tool", t)) : t \in ToolResults}
        \cup {state(PMessage("ai", PList(<<PDict("type" :> PStr(<<"text">>) @@ "text" :> t)>>))) :
                 t \in ToolResults}
        \cup {state(PMessage("ai", PList(<<PStr(<<"block">>)>>))),
              state(PMessage("ai", PNone)),
              state(PDict("role" :> PStr(<<"assistant">>) @@ "content" :> PStr(<<"xin chao">>))),
              state(PStr(<<"raw">>)),
              PDict("messages" :> PList(<< >>)),
              PDict("messages" :> PNone),
              PDict("output" :> PInt(42)),
              EmptyDict,
              PObject,
              PNone}
        \cup {PDict("output" :> t) : t \in ToolResults}

\* An agent invocation returns one of these values or raises (the model
\* provider failed, or the agent ran out of steps).
AgentOutcomes(content) ==
    {Ok(r) : r \in AgentResults(content)}
    \cup {Raise("ProviderError"), Raise("GraphRecursionError")}

\* chains.py 10-13, 52: the classifier chain returns a QueryClassification or
\* raises (model failure, or the parser rejects the model's text).
ClassifierOutcomes ==
    {Ok([is_complex |-> b]) : b \in BOOLEAN} \cup {Raise("OutputParserException")}

\* chains.py 16-19, 92: the decomposition chain.
DecompositionOutcomes ==
    {Ok([sub_queries |-> l]) : l \in SubQueryLists} \cup {Raise("OutputParserException")}

\* chains.py 22-25, 130: the combine chain.  combined_answer is declared str;
\* a non-str value exercises main.py 107-108.
CombinedAnswers ==
    {PStr(<<"VIC tang, VHM giam">>), PStr(<< >>), PDict("text" :> PStr(<<"VIC tang">>))}

CombineOutcomes ==
    {Ok([combined_answer |-> a]) : a \in CombinedAnswers} \cup {Raise("OutputParserException")}


\* ------------------------------------------------------------------- state

VARIABLES
    pc,                     \* where the /chat handler is suspended
    query,                  \* main.py 59
    classification_result,  \* main.py 62
    decomposed_queries,     \* main.py 68
    results,                \* main.py 72
    formatted_results,      \* main.py 80
    combined_result,        \* main.py 99
    response,               \* what the handler returned, if it did
    error,                  \* the exception that left the handler, if one did
    calls,                  \* the request's chain and agent events, in order
    tool_exec,              \* the last tool execution (tools.py)
    frames,                 \* concurrent requests: the locals of each call
    module_objects          \* main.py 32-38: the objects all requests share

chat_vars == <<pc, query, classification_result, decomposed_queries, results,
               formatted_results, combined_result, response, error, calls>>
conc_vars == <<frames, module_objects>>
vars == <<chat_vars, tool_exec, conc_vars>>

NoValue == [t |-> "unset"]
NoResponse == [t |-> "no response"]
NoError == [t |-> "no error"]
NoToolExec == [tool |-> "none"]

\* The events of a request: a chain or agent is invoked with an input, and the
\* invocation returns a value or raises.
Called(target, input) ==
    [ev |-> "call", target |-> target, input |-> input, value |-> NoValue]
Returned(target, value) ==
    [ev |-> "return", target |-> target, input |-> NoValue, value |-> value]
Raised(target, e) ==
    [ev |-> "raise", target |-> target, input |-> NoValue, value |-> [exc |-> e]]

\* A handler that takes the complex branch whatever the classification says.
IsComplexBranch_Always(classification) == TRUE

\* main.py 64: the branch taken on the classification.
IsComplexBranch(classification) == classification.is_complex

\* A loop that walks the sub-queries from the last to the first.
SubQueryAt_Reversed(sub_queries, k) == sub_queries[Len(sub_queries) - k + 1]

\* main.py 73: the sub-query of the k-th iteration of the loop.
SubQueryAt(sub_queries, k) == sub_queries[k]

\* A handler that swallows the exception and answers with what it holds.
OnException_Partial(e, partial) ==
    [pc |-> "responded", response |-> [output |-> Str(partial)], error |-> NoError]

\* main.py 62, 67, 74, 99, 116: no handler surrounds the awaited calls, so an
\* exception leaves chat_with_agent; no response is built.  partial is what
\* the handler holds at that point.
OnException(e, partial) ==
    [pc |-> "failed", response |-> NoResponse, error |-> [exc |-> e]]

\* A loop that starts the invocations of all the remaining sub-queries at
\* once instead of awaiting each one in turn.
LoopStep_Gather(sub_queries, collected, log) ==
    IF Len(collected) < Len(sub_queries)
      THEN [pc |-> "await_direct",
            formatted |-> NoValue,
            calls |-> log \o [k \in 1..(Len(sub_queries) - Len(collected)) |->
                          Called("agent_direct",
                                 AgentInput(SubQueryAt(sub_queries, Len(collected) + k)))]]
      ELSE [pc |-> "await_combine",
            formatted |-> FormatResults(collected),
            calls |-> Append(log, Called("combine_chain",
                          PDict("original_query" :> query
                                @@ "results" :> FormatResults(collected))))]

\* A loop that hands the query to the conversational agent when the
\* decomposition named no sub-query.
LoopStep_EmptyFallsBack(sub_queries, collected, log) ==
    IF sub_queries = << >>
      THEN [pc |-> "await_agent",
            formatted |-> NoValue,
            calls |-> Append(log, Called("agent", AgentInput(query)))]
    ELSE IF Len(collected) < Len(sub_queries)
      THEN [pc |-> "await_direct",
            formatted |-> NoValue,
            calls |-> Append(log, Called("agent_direct",
                          AgentInput(SubQueryAt(sub_queries, Len(collected) + 1))))]
      ELSE [pc |-> "await_combine",
            formatted |-> FormatResults(collected),
            calls |-> Append(log, Called("combine_chain",
                          PDict("original_query" :> query
                                @@ "results" :> FormatResults(collected))))]

\* main.py 72-102: after a result was appended (or the list was created):
\* the next direct-agent invocation, or formatting and the Combine chain.
LoopStep(sub_queries, collected, log) ==
    IF Len(collected) < Len(sub_queries)
      THEN [pc |-> "await_direct",
            formatted |-> NoValue,
            calls |-> Append(log, Called("agent_direct",
                          AgentInput(SubQueryAt(sub_queries, Len(collected) + 1))))]
      ELSE [pc |-> "await_combine",
            formatted |-> FormatResults(collected),
            calls |-> Append(log, Called("combine_chain",
                          PDict("original_query" :> query
                                @@ "results" :> FormatResults(collected))))]

\* main.py 48: the requests served at the same time, each by its own call
\* of chat_with_agent.
Requests == 1..NumRequests

\* The locals of a call of chat_with_agent that has not started.
IdleFrame ==
    [pc |-> "idle", query |-> NoValue, classification_result |-> NoValue,
     decomposed_queries |-> NoValue, results |-> NoValue,
     formatted_results |-> NoValue, combined_result |-> NoValue,
     response |-> NoResponse, error |-> NoError, calls |-> << >>]

\* main.py 32-38: the objects created once when the server starts.
ModuleObjects ==
    [llm |-> "create_llm()",
     agent |-> [tools |-> "all_tools", return_direct |-> FALSE],
     agent_direct |-> [tools |-> "direct_tools", return_direct |-> TRUE],
     classifier_chain |-> "prompt | llm | parser",
     decomposition_chain |-> "prompt | llm | parser",
     combine_chain |-> "prompt | llm | parser"]

Init ==
    /\ pc = "idle"
    /\ query = NoValue
    /\ classification_result = NoValue
    /\ decomposed_queries = NoValue
    /\ results = NoValue
    /\ formatted_results = NoValue
    /\ combined_result = NoValue
    /\ response = NoResponse
    /\ error = NoError
    /\ calls = << >>
    /\ tool_exec = NoToolExec
    /\ frames = [r \in Requests |-> IdleFrame]
    /\ module_objects = ModuleObjects

\* A handler that decomposes every query without classifying it first.
ChatRequest_DecomposeFirst ==
    /\ pc \in {"idle", "responded", "failed"}
    /\ \E q \in Queries :
         /\ query' = q
         /\ calls' = <<Called("decomposition_chain", PDict("query" :> q))>>
    /\ pc' = "await_decomposition"
    /\ classification_result' = NoValue
    /\ decomposed_queries' = NoValue
    /\ results' = NoValue
    /\ formatted_results' = NoValue
    /\ combined_result' = NoValue
    /\ response' = NoResponse
    /\ error' = NoError
    /\ UNCHANGED <<tool_exec, conc_vars>>

\* main.py 48-62: a request arrives; the handler runs to its first await.
\* Nothing of an earlier request is kept.
ChatRequest ==
    /\ pc \in {"idle", "responded", "failed"}
    /\ \E q \in Queries :
         /\ query' = q
         /\ calls' = <<Called("classifier_chain", PDict("query" :> q))>>
    /\ pc' = "await_classifier"
    /\ classification_result' = NoValue
    /\ decomposed_queries' = NoValue
    /\ results' = NoValue
    /\ formatted_results' = NoValue
    /\ combined_result' = NoValue
    /\ response' = NoResponse
    /\ error' = NoError
    /\ UNCHANGED <<tool_exec, conc_vars>>

\* The handler ends with exception e.
Fail(target, e, partial) ==
    LET x == OnException(e, partial) IN
    /\ pc' = x.pc
    /\ response' = x.response
    /\ error' = x.error
    /\ calls' = Append(calls, Raised(target, e))

\* main.py 62-68, 113-118: the classifier returns; the handler branches and
\* runs to its next await.
ClassifierReturn ==
    /\ pc = "await_classifier"
    /\ \E o \in ClassifierOutcomes :
         IF o.exc # "none"
           THEN /\ Fail("classifier_chain", o.exc, PStr(<< >>))
                /\ UNCHANGED classification_result
           ELSE /\ classification_result' = o.v
                /\ IF IsComplexBranch(o.v)
                     THEN /\ pc' = "await_decomposition"
                          /\ calls' = calls \o <<Returned("classifier_chain", o.v),
                                         Called("decomposition_chain", PDict("query" :> query))>>
                     ELSE /\ pc' = "await_agent"
                          /\ calls' = calls \o <<Returned("classifier_chain", o.v),
                                         Called("agent", AgentInput(query))>>
                /\ UNCHANGED <<response, error>>
    /\ UNCHANGED <<query, decomposed_queries, results, formatted_results,
                   combined_result, tool_exec, conc_vars>>

\* main.py 67-102: the decomposition returns; the loop starts (or, for an
\* empty list, formatting and the Combine chain follow at once).
DecompositionReturn ==
    /\ pc = "await_decomposition"
    /\ \E o \in DecompositionOutcomes :
         IF o.exc # "none"
           THEN /\ Fail("decomposition_chain", o.exc, PStr(<< >>))
                /\ UNCHANGED <<decomposed_queries, results, formatted_results>>
           ELSE LET step == LoopStep(o.v.sub_queries, << >>,
                                     Append(calls, Returned("decomposition_chain", o.v))) IN
                /\ decomposed_queries' = o.v.sub_queries
                /\ results' = << >>
                /\ pc' = step.pc
                /\ formatted_results' = step.formatted
                /\ calls' = step.calls
                /\ UNCHANGED <<response, error>>
    /\ UNCHANGED <<query, classification_result, combined_result, tool_exec, conc_vars>>

\* The question of the agent invocation in flight.
PendingContent == calls[Len(calls)].input.d["messages"].l[1].d["content"]

\* main.py 74-102: a direct-agent invocation returns; its result is appended
\* and the loop goes on.
DirectAgentReturn ==
    /\ pc = "await_direct"
    /\ \E o \in AgentOutcomes(PendingContent) :
         IF o.exc # "none"
           THEN /\ Fail("agent_direct", o.exc, FormatResults(results))
                /\ UNCHANGED <<results, formatted_results>>
           ELSE LET step == LoopStep(decomposed_queries, Append(results, o.v),
                                     Append(calls, Returned("agent_direct", o.v))) IN
                /\ results' = Append(results, o.v)
                /\ pc' = step.pc
                /\ formatted_results' = step.formatted
                /\ calls' = step.calls
                /\ UNCHANGED <<response, error>>
    /\ UNCHANGED <<query, classification_result, decomposed_queries, combined_result,
                   tool_exec, conc_vars>>

\* Building the response ends the handler: ChatResponse validates its field.
Respond(target, value, output) ==
    LET r == ChatResponse(output) IN
    IF r.exc = "none"
      THEN /\ pc' = "responded"
           /\ response' = r.v
           /\ error' = NoError
           /\ calls' = Append(calls, Returned(target, value))
      ELSE /\ pc' = "failed"
           /\ response' = NoResponse
           /\ error' = [exc |-> r.exc]
           /\ calls' = Append(calls, Returned(target, value))

\* main.py 99-112: the Combine chain returns; its combined_answer is the
\* response.
CombineReturn ==
    /\ pc = "await_combine"
    /\ \E o \in CombineOutcomes :
         IF o.exc # "none"
           THEN /\ Fail("combine_chain", o.exc, formatted_results)
                /\ UNCHANGED combined_result
           ELSE /\ combined_result' = o.v
                /\ Respond("combine_chain", o.v, EnsureStr(o.v.combined_answer))
    /\ UNCHANGED <<query, classification_result, decomposed_queries, results,
                   formatted_results, tool_exec, conc_vars>>

\* main.py 116-160: the conversational agent returns; its answer is
\* extracted from result (the value of the return event) and is the response.
AgentReturn ==
    /\ pc = "await_agent"
    /\ \E o \in AgentOutcomes(PendingContent) :
         IF o.exc # "none"
           THEN Fail("agent", o.exc, PStr(<< >>))
           ELSE LET x == SimpleExtract(o.v) IN
                IF x.exc # "none"
                  THEN /\ pc' = "failed"
                       /\ response' = NoResponse
                       /\ error' = [exc |-> x.exc]
                       /\ calls' = Append(calls, Returned("agent", o.v))
                  ELSE Respond("agent", o.v, x.v)
    /\ UNCHANGED <<query, classification_result, decomposed_queries, results,
                   formatted_results, combined_result, tool_exec, conc_vars>>

\* ------------------------------------------------------------ tools.py

\* An argument the caller left out, so that the entry point's default applies.
Omitted == "<omitted>"
POmitted == [t |-> "omitted"]

\* What one execution of a tool body did: the outcome (a returned value or a
\* raised exception), the requests made to the data provider, and the
\* processing applied to the fetched table.
Exec(ret, requests, work) == [ret |-> ret, requests |-> requests, work |-> work]

\* A tool body with no try/except around it.
TryExcept_Missing(body, message, symbol) == body

\* `try: ... except Exception as e: return f"{message}{symbol}: {str(e)}"`
TryExcept(body, message, symbol) ==
    IF body.ret.exc = "none" THEN body
    ELSE Exec(Ok(PStr(<<message, symbol, ": ", body.ret.exc>>)), body.requests, body.work)

\* DataFrame.to_json(orient='records'): the records, column by column.
ToJson(df) == PStr(<<"[records: ">> \o df.columns \o <<"]">>)

\* `', '.join(l)`
RECURSIVE Join(_)
Join(l) ==
    IF l = << >> THEN << >>
    ELSE <<Head(l)>> \o (IF Len(l) > 1 THEN <<", ">> ELSE << >>) \o Join(Tail(l))

\* `[x for x in l if P(x)]`
Filter(l, S) == SelectSeq(l, LAMBDA x : x \in S)
Range(l) == {l[i] : i \in 1..Len(l)}

\* tools.py 136, 198, 248, 304
valid_intervals == <<"1m", "5m", "15m", "30m", "1H", "1D", "1W", "1M">>
\* tools.py 141
available_columns == <<"time", "open", "high", "low", "close", "volume">>

\* tools.py 138, 200, 250, 306
InvalidIntervalMessage ==
    PStr(<<"Khung thoi gian khong hop le. Cac khung thoi gian co san: ">>
         \o Join(valid_intervals))

\* A message that names the symbol only, as the company lookups' one does.
NoDataMessage_SymbolOnly(symbol, start, end, interval) ==
    PStr(<<"Khong tim thay du lieu OHLCV cho ma ", symbol>>)

\* tools.py 151, 206, 260, 316
NoDataMessage(symbol, start, end, interval) ==
    PStr(<<"Khong tim thay du lieu OHLCV cho ma ", symbol, " tu ", start, " den ", end,
           " voi khung thoi gian ", interval>>)

\* A request to the data provider.
CompanyRequest(api, symbol) ==
    [api |-> api, symbol |-> symbol, start |-> "", end |-> "", interval |-> ""]
HistoryRequest(symbol, start, end, interval) ==
    [api |-> "history", symbol |-> symbol, start |-> start, end |-> end,
     interval |-> interval]

\* The table the provider returned is None or empty.
NoData(env) == env.prov \in {"none", "empty"}

\* tools.py 25-35, 60-70, 95-105: the three company lookups share one body.
CompanyLookupBody(api, not_found, symbol, env) ==
    IF env.prov = "init_raise" THEN Exec(Raise("ValueError"), << >>, << >>)
    ELSE LET requests == <<CompanyRequest(api, symbol)>> IN
         IF env.prov = "raise" THEN Exec(Raise("ConnectionError"), requests, << >>)
         ELSE IF NoData(env) THEN Exec(Ok(PStr(<<not_found, symbol>>)), requests, << >>)
         ELSE IF env.lib = "raise" THEN Exec(Raise("ValueError"), requests, <<"to_json">>)
         ELSE Exec(Ok(ToJson(env.df)), requests, <<"to_json">>)

\* tools.py 23-35
ViewShareholders_run(symbol, env) ==
    TryExcept(CompanyLookupBody("shareholders", "Khong tim thay thong tin co dong cho ma ",
                                symbol, env),
              "Loi khi lay thong tin co dong cho ma ", symbol)

\* tools.py 37-39
ViewShareholders_arun(symbol, env) == ViewShareholders_run(symbol, env)

\* tools.py 58-70
ViewManagement_run(symbol, env) ==
    TryExcept(CompanyLookupBody("officers", "Khong tim thay thong tin ban lanh dao cho ma ",
                                symbol, env),
              "Loi khi lay thong tin ban lanh dao cho ma ", symbol)

\* tools.py 72-74
ViewManagement_arun(symbol, env) == ViewManagement_run(symbol, env)

\* tools.py 93-105
ViewSubsidiaries_run(symbol, env) ==
    TryExcept(CompanyLookupBody("subsidiaries", "Khong tim thay thong tin cong ty con cho ma ",
                                symbol, env),
              "Loi khi lay thong tin cong ty con cho ma ", symbol)

\* tools.py 107-109
ViewSubsidiaries_arun(symbol, env) == ViewSubsidiaries_run(symbol, env)

\* tools.py 147-148, 202-203, 256-257, 312-313: Quote(...).history(...).
\* The outcome is the fetched table, or what ended the body early.
Fetch(symbol, start, end, interval, env) ==
    IF env.prov = "init_raise" THEN Exec(Raise("ValueError"), << >>, << >>)
    ELSE LET requests == <<HistoryRequest(symbol, start, end, interval)>> IN
         IF env.prov = "raise" THEN Exec(Raise("ConnectionError"), requests, << >>)
         ELSE IF NoData(env)
           THEN Exec(Ok(NoDataMessage(symbol, start, end, interval)), requests, << >>)
         ELSE Exec(Ok(PNone), requests, << >>)

\* The body goes on after the fetch: rows came back.
Fetched(env) == env.prov = "rows"

\* tools.py 134-166: the try block of ViewOHLCVTool._run.
ViewOHLCVBody(symbol, start, end, interval, columns, env) ==
    IF interval \notin Range(valid_intervals) THEN Exec(Ok(InvalidIntervalMessage), << >>, << >>)
    ELSE IF columns.t = "int" /\ columns.n # 0 THEN Exec(Raise("TypeError"), << >>, << >>)
    ELSE LET given == IsList(columns) /\ Len(columns.l) > 0
             invalid_columns ==
                 IF given THEN Filter(columns.l, Range(columns.l) \ Range(available_columns))
                 ELSE << >>
         IN
         IF invalid_columns # << >>
           THEN Exec(Ok(PStr(<<"Cot khong hop le: ">> \o Join(invalid_columns)
                             \o <<". Cac cot co san: ">> \o Join(available_columns))),
                     << >>, << >>)
         ELSE LET f == Fetch(symbol, start, end, interval, env) IN
              IF ~Fetched(env) THEN f
              ELSE IF given
                THEN LET with_time == IF "time" \notin Range(columns.l)
                                        THEN <<"time">> \o columns.l ELSE columns.l
                         available_cols_in_data == Filter(with_time, Range(env.df.columns))
                     IN
                     IF available_cols_in_data = << >>
                       THEN Exec(Ok(PStr(<<"Khong tim thay cot nao trong du lieu cho ma ",
                                           symbol>>)), f.requests, << >>)
                     ELSE IF env.lib = "raise"
                       THEN Exec(Raise("ValueError"), f.requests, <<"filter", "to_json">>)
                     ELSE Exec(Ok(ToJson([columns |-> available_cols_in_data])), f.requests,
                               <<"filter", "to_json">>)
              ELSE IF env.lib = "raise" THEN Exec(Raise("ValueError"), f.requests, <<"to_json">>)
              ELSE Exec(Ok(ToJson(env.df)), f.requests, <<"to_json">>)

\* tools.py 132-169
ViewOHLCV_run(symbol, start, end, interval, columns, env) ==
    TryExcept(ViewOHLCVBody(
                  symbol,
                  IF start = Omitted THEN "2024-01-01" ELSE start,
                  IF end = Omitted THEN "2024-12-31" ELSE end,
                  IF interval = Omitted THEN "1D" ELSE interval,
                  IF columns = POmitted THEN PNone ELSE columns,
                  env),
              "Loi khi lay du lieu OHLCV cho ma ", symbol)

\* tools.py 171-173
ViewOHLCV_arun(symbol, start, end, interval, columns, env) ==
    ViewOHLCV_run(symbol,
                  IF start = Omitted THEN "2025-10-01" ELSE start,
                  IF end = Omitted THEN "2025-11-13" ELSE end,
                  IF interval = Omitted THEN "1D" ELSE interval,
                  IF columns = POmitted THEN PNone ELSE columns,
                  env)

\* tools.py 196-215: the try block of CalculateTotalVolumeTool._run.
CalculateTotalVolumeBody(symbol, start, end, interval, env) ==
    IF interval \notin Range(valid_intervals) THEN Exec(Ok(InvalidIntervalMessage), << >>, << >>)
    ELSE LET f == Fetch(symbol, start, end, interval, env) IN
         IF ~Fetched(env) THEN f
         ELSE IF "volume" \notin Range(env.df.columns)
           THEN Exec(Ok(PStr(<<"Khong tim thay cot 'volume' trong du lieu cho ma ", symbol>>)),
                     f.requests, << >>)
         ELSE IF env.lib = "raise" THEN Exec(Raise("ValueError"), f.requests, <<"sum">>)
         ELSE Exec(Ok(Str(PInt(env.df.volume))), f.requests, <<"sum">>)

\* tools.py 194-218
CalculateTotalVolume_run(symbol, start, end, interval, env) ==
    TryExcept(CalculateTotalVolumeBody(
                  symbol,
                  IF start = Omitted THEN "2024-01-01" ELSE start,
                  IF end = Omitted THEN "2024-12-31" ELSE end,
                  IF interval = Omitted THEN "1D" ELSE interval,
                  env),
              "Loi khi tinh tong khoi luong cho ma ", symbol)

\* tools.py 220-222
CalculateTotalVolume_arun(symbol, start, end, interval, env) ==
    CalculateTotalVolume_run(symbol,
                             IF start = Omitted THEN "2024-01-01" ELSE start,
                             IF end = Omitted THEN "2024-12-31" ELSE end,
                             IF interval = Omitted THEN "1D" ELSE interval,
                             env)

\* A check that lets period = 0 through (`period < 0`).
PeriodNotPositive_Strict(period) ==
    IF period.t = "int" THEN Ok(period.n < 0) ELSE Raise("TypeError")

\* `period <= 0`: an int compares, anything else raises TypeError.
PeriodNotPositive(period) ==
    IF period.t = "int" THEN Ok(period.n <= 0) ELSE Raise("TypeError")

\* tools.py 246-272 and 302-328: the try blocks of CalculateSMATool._run and
\* CalculateRSITool._run differ in the indicator and its messages only.
IndicatorBody(name, symbol, start, end, interval, period, env) ==
    IF interval \notin Range(valid_intervals) THEN Exec(Ok(InvalidIntervalMessage), << >>, << >>)
    ELSE LET bad == PeriodNotPositive(period) IN
         IF bad.exc # "none" THEN Exec(Raise(bad.exc), << >>, << >>)
         ELSE IF bad.v
           THEN Exec(Ok(PStr(<<"Chu ky ", name, " phai la so duong. Gia tri nhan duoc: ">>
                             \o Str(period).s)), << >>, << >>)
         ELSE LET f == Fetch(symbol, start, end, interval, env) IN
              IF ~Fetched(env) THEN f
              ELSE IF "close" \notin Range(env.df.columns)
                THEN Exec(Ok(PStr(<<"Khong tim thay cot 'close' trong du lieu cho ma ",
                                    symbol>>)), f.requests, << >>)
              ELSE IF env.lib = "raise" THEN Exec(Raise("ValueError"), f.requests, <<name>>)
              ELSE Exec(Ok(ToJson([columns |-> env.df.columns
                                      \o <<name \o "_" \o ToString(period.n)>>])),
                        f.requests, <<name, "round", "to_json">>)

\* tools.py 244-275
CalculateSMA_run(symbol, start, end, interval, period, env) ==
    TryExcept(IndicatorBody(
                  "SMA", symbol,
                  IF start = Omitted THEN "2024-01-01" ELSE start,
                  IF end = Omitted THEN "2024-12-31" ELSE end,
                  IF interval = Omitted THEN "1D" ELSE interval,
                  IF period = POmitted THEN PInt(20) ELSE period,
                  env),
              "Loi khi tinh toan SMA cho ma ", symbol)

\* tools.py 277-279
CalculateSMA_arun(symbol, start, end, interval, period, env) ==
    CalculateSMA_run(symbol,
                     IF start = Omitted THEN "2024-01-01" ELSE start,
                     IF end = Omitted THEN "2024-12-31" ELSE end,
                     IF interval = Omitted THEN "1D" ELSE interval,
                     IF period = POmitted THEN PInt(20) ELSE period,
                     env)

\* tools.py 300-331
CalculateRSI_run(symbol, start, end, interval, period, env) ==
    TryExcept(IndicatorBody(
                  "RSI", symbol,
                  IF start = Omitted THEN "2024-01-01" ELSE start,
                  IF end = Omitted THEN "2024-12-31" ELSE end,
                  IF interval = Omitted THEN "1D" ELSE interval,
                  IF period = POmitted THEN PInt(14) ELSE period,
                  env),
              "Loi khi tinh toan RSI cho ma ", symbol)

\* tools.py 333-335
CalculateRSI_arun(symbol, start, end, interval, period, env) ==
    CalculateRSI_run(symbol,
                     IF start = Omitted THEN "2024-01-01" ELSE start,
                     IF end = Omitted THEN "2024-12-31" ELSE end,
                     IF interval = Omitted THEN "1D" ELSE interval,
                     IF period = POmitted THEN PInt(14) ELSE period,
                     env)

\* ------------------------------------------------- inputs of the tool model

Symbols == {"VCB", "XXX"}
Starts == {Omitted, "2024-10-01", "2024-12-01"}
Ends == {Omitted, "2024-11-13"}
Intervals == {Omitted, "1D", "15m", "2D"}
ColumnArgs ==
    {POmitted, PNone, PList(<< >>), PList(<<"close">>), PList(<<"time", "volume">>),
     PList(<<"foo">>), PList(<<"close", "foo">>), PInt(5)}
Periods == {POmitted, PInt(-5), PInt(0), PInt(1), PInt(14), PNone}
EntryPoints == {"_run", "_arun"}

\* Tables the provider may return.
DataFrames ==
    {[columns |-> available_columns, volume |-> 1200],
     [columns |-> <<"time", "open", "high", "low">>, volume |-> 0]}
EmptyFrame == [columns |-> << >>, volume |-> 0]

\* What the provider and the libraries do during one execution: the provider
\* rejects the symbol, fails, returns None, an empty table or rows; the
\* processing of the rows (pandas, the indicator library) works or raises.
Environments ==
    {[prov |-> k, df |-> EmptyFrame, lib |-> "ok"] :
         k \in {"init_raise", "raise", "none", "empty"}}
    \cup {[prov |-> "rows", df |-> d, lib |-> l] : d \in DataFrames, l \in {"ok", "raise"}}

\* The record of one execution: the tool, the entry point, the arguments as
\* supplied, the environment, and what the execution did.
ToolExec(tool, entry, args, env, exec) ==
    [tool |-> tool, entry |-> entry, args |-> args, env |-> env, exec |-> exec]

CompanyArgs(symbol) ==
    [symbol |-> symbol, start |-> Omitted, end |-> Omitted, interval |-> Omitted,
     columns |-> POmitted, period |-> POmitted]
OHLCVArgs(symbol, start, end, interval, columns) ==
    [symbol |-> symbol, start |-> start, end |-> end, interval |-> interval,
     columns |-> columns, period |-> POmitted]
IndicatorArgs(symbol, start, end, interval, period) ==
    [symbol |-> symbol, start |-> start, end |-> end, interval |-> interval,
     columns |-> POmitted, period |-> period]

\* The execution of a tool's entry point on the supplied arguments.
RunEntry(tool, entry, a, env) ==
    CASE tool = "view_shareholders" ->
           IF entry = "_run" THEN ViewShareholders_run(a.symbol, env)
           ELSE ViewShareholders_arun(a.symbol, env)
      [] tool = "view_management" ->
           IF entry = "_run" THEN ViewManagement_run(a.symbol, env)
           ELSE ViewManagement_arun(a.symbol, env)
      [] tool = "view_subsidiaries" ->
           IF entry = "_run" THEN ViewSubsidiaries_run(a.symbol, env)
           ELSE ViewSubsidiaries_arun(a.symbol, env)
      [] tool = "view_ohlcv" ->
           IF entry = "_run"
             THEN ViewOHLCV_run(a.symbol, a.start, a.end, a.interval, a.columns, env)
             ELSE ViewOHLCV_arun(a.symbol, a.start, a.end, a.interval, a.columns, env)
      [] tool = "calculate_total_volume" ->
           IF entry = "_run"
             THEN CalculateTotalVolume_run(a.symbol, a.start, a.end, a.interval, env)
             ELSE CalculateTotalVolume_arun(a.symbol, a.start, a.end, a.interval, env)
      [] tool = "calculate_sma" ->
           IF entry = "_run"
             THEN CalculateSMA_run(a.symbol, a.start, a.end, a.interval, a.period, env)
             ELSE CalculateSMA_arun(a.symbol, a.start, a.end, a.interval, a.period, env)
      [] tool = "calculate_rsi" ->
           IF entry = "_run"
             THEN CalculateRSI_run(a.symbol, a.start, a.end, a.interval, a.period, env)
             ELSE CalculateRSI_arun(a.symbol, a.start, a.end, a.interval, a.period, env)

\* One execution of a company lookup tool, from its call to its outcome.
InvokeCompanyTool(tool) ==
    /\ tool_exec = NoToolExec
    /\ \E entry \in EntryPoints, symbol \in Symbols, env \in Environments :
        LET a == CompanyArgs(symbol) IN
        tool_exec' = ToolExec(tool, entry, a, env, RunEntry(tool, entry, a, env))

InvokeViewShareholders == InvokeCompanyTool("view_shareholders") /\ UNCHANGED <<chat_vars, conc_vars>>
InvokeViewManagement == InvokeCompanyTool("view_management") /\ UNCHANGED <<chat_vars, conc_vars>>
InvokeViewSubsidiaries == InvokeCompanyTool("view_subsidiaries") /\ UNCHANGED <<chat_vars, conc_vars>>

InvokeViewOHLCV ==
    /\ tool_exec = NoToolExec
    /\ \E entry \in EntryPoints, symbol \in Symbols, start \in Starts, end \in Ends,
          interval \in Intervals, columns \in ColumnArgs, env \in Environments :
          LET a == OHLCVArgs(symbol, start, end, interval, columns) IN
          tool_exec' = ToolExec("view_ohlcv", entry, a, env,
                                RunEntry("view_ohlcv", entry, a, env))
    /\ UNCHANGED <<chat_vars, conc_vars>>

InvokeCalculateTotalVolume ==
    /\ tool_exec = NoToolExec
    /\ \E entry \in EntryPoints, symbol \in Symbols, start \in Starts, end \in Ends,
          interval \in Intervals, env \in Environments :
          LET a == OHLCVArgs(symbol, start, end, interval, POmitted) IN
          tool_exec' = ToolExec("calculate_total_volume", entry, a, env,
                                RunEntry("calculate_total_volume", entry, a, env))
    /\ UNCHANGED <<chat_vars, conc_vars>>

InvokeIndicator(tool) ==
    /\ tool_exec = NoToolExec
    /\ \E entry \in EntryPoints, symbol \in Symbols, start \in Starts, end \in Ends,
       interval \in Intervals, period \in Periods, env \in Environments :
       LET a == IndicatorArgs(symbol, start, end, interval, period) IN
       tool_exec' = ToolExec(tool, entry, a, env, RunEntry(tool, entry, a, env))

InvokeCalculateSMA == InvokeIndicator("calculate_sma") /\ UNCHANGED <<chat_vars, conc_vars>>
InvokeCalculateRSI == InvokeIndicator("calculate_rsi") /\ UNCHANGED <<chat_vars, conc_vars>>

\* The caller has taken the result; the tool keeps nothing of the execution.
ToolDone ==
    /\ tool_exec # NoToolExec
    /\ tool_exec' = NoToolExec
    /\ UNCHANGED <<chat_vars, conc_vars>>

NextTools ==
    \/ ToolDone
    \/ InvokeViewShareholders
    \/ InvokeViewManagement
    \/ InvokeViewSubsidiaries
    \/ InvokeViewOHLCV
    \/ InvokeCalculateTotalVolume
    \/ InvokeCalculateSMA
    \/ InvokeCalculateRSI

SpecTools == Init /\ [][NextTools]_vars

Next ==
    \/ ChatRequest
    \/ ClassifierReturn
    \/ DecompositionReturn
    \/ DirectAgentReturn
    \/ CombineReturn
    \/ AgentReturn

Spec == Init /\ [][Next]_vars

\* The same handler, under the name the claims on the order of its events
\* refer to.
SpecOrder == Init /\ [][Next]_vars


\* ------------------------------------------------------ concurrent requests

\* The request body of request r, and the sub-queries a decomposition of it
\* may name: texts that tell the requests apart.
ConcQuery(r) == PStr(<<"cau hoi cua yeu cau ", ToString(r)>>)
ConcSubQuery(q, k) == PStr(q.s \o <<", phan ", ToString(k)>>)

\* chains.py 16-19, 92: the decomposition chain on query q.
ConcDecompositionOutcomes(q) ==
    {Ok([sub_queries |-> [k \in 1..n |-> ConcSubQuery(q, k)]]) : n \in 0..MaxSubQueries}
    \cup {Raise("OutputParserException")}

\* An agent invocation on the question `content`: the message-list state
\* that holds the question and ends in a tool message, or an exception.
ConcAgentOutcomes(content) ==
    {Ok(PDict("messages" :> PList(<<PMessage("human", content),
                                     PMessage("ai", PStr(<< >>)),
                                     PMessage("tool", PStr(<<"[{time, close}]">>))>>))),
     Raise("ProviderError")}

\* chains.py 22-25, 130: the combine chain.
ConcCombineOutcomes ==
    {Ok([combined_answer |-> PStr(<<"VIC tang, VHM giam">>)]), Raise("OutputParserException")}

\* A handler that keeps results in one list of the module instead of a local
\* of the call.
ResultsOwner_Module(r) == 1

\* main.py 72: results is a local of the call: the handler of request r
\* creates, appends to and reads the list of its own frame.
ResultsOwner(r) == r

\* main.py 72-102 on the locals of one call (LoopStep, with the call's query).
FrameLoopStep(f, collected, log) ==
    IF Len(collected) < Len(f.decomposed_queries.l)
      THEN [f EXCEPT !.pc = "await_direct",
                     !.results = PList(collected),
                     !.calls = Append(log, Called("agent_direct",
                         AgentInput(SubQueryAt(f.decomposed_queries.l, Len(collected) + 1))))]
      ELSE [f EXCEPT !.pc = "await_combine",
                     !.results = PList(collected),
                     !.formatted_results = FormatResults(collected),
                     !.calls = Append(log, Called("combine_chain",
                         PDict("original_query" :> f.query
                               @@ "results" :> FormatResults(collected))))]

\* The call ends with exception e.
FrameFail(f, target, e, partial) ==
    LET x == OnException(e, partial) IN
    [f EXCEPT !.pc = x.pc, !.response = x.response, !.error = x.error,
              !.calls = Append(f.calls, Raised(target, e))]

\* The call ends by building ChatResponse(output).
FrameRespond(f, target, value, output) ==
    LET r == ChatResponse(output) IN
    IF r.exc = "none"
      THEN [f EXCEPT !.pc = "responded", !.response = r.v,
                     !.calls = Append(f.calls, Returned(target, value))]
      ELSE [f EXCEPT !.pc = "failed", !.error = [exc |-> r.exc],
                     !.calls = Append(f.calls, Returned(target, value))]

\* main.py 59-62: the call starts on query q and runs to its first await.
FrameStart(q) ==
    [IdleFrame EXCEPT !.pc = "await_classifier", !.query = q,
                      !.calls = <<Called("classifier_chain", PDict("query" :> q))>>]

\* The question of the agent invocation the call awaits.
FramePendingContent(f) == f.calls[Len(f.calls)].input.d["messages"].l[1].d["content"]

\* What the awaited call of frame f may produce.
FrameOutcomes(f) ==
    CASE f.pc = "await_classifier" -> ClassifierOutcomes
      [] f.pc = "await_decomposition" -> ConcDecompositionOutcomes(f.query)
      [] f.pc \in {"await_direct", "await_agent"} -> ConcAgentOutcomes(FramePendingContent(f))
      [] f.pc = "await_combine" -> ConcCombineOutcomes
      [] OTHER -> {}

\* main.py 62-160: the awaited call of frame f ends with outcome o; the
\* handler runs to its next await or to its end.
Resume(f, o) ==
    CASE f.pc = "await_classifier" ->
           IF o.exc # "none" THEN FrameFail(f, "classifier_chain", o.exc, PStr(<< >>))
           ELSE [f EXCEPT !.classification_result = o.v,
                          !.pc = IF IsComplexBranch(o.v) THEN "await_decomposition"
                                 ELSE "await_agent",
                          !.calls = f.calls \o <<Returned("classifier_chain", o.v),
                              IF IsComplexBranch(o.v)
                                THEN Called("decomposition_chain", PDict("query" :> f.query))
                                ELSE Called("agent", AgentInput(f.query))>>]
      [] f.pc = "await_decomposition" ->
           IF o.exc # "none" THEN FrameFail(f, "decomposition_chain", o.exc, PStr(<< >>))
           ELSE FrameLoopStep([f EXCEPT !.decomposed_queries = PList(o.v.sub_queries)],
                              << >>, Append(f.calls, Returned("decomposition_chain", o.v)))
      [] f.pc = "await_direct" ->
           IF o.exc # "none"
             THEN FrameFail(f, "agent_direct", o.exc, FormatResults(f.results.l))
           ELSE FrameLoopStep(f, Append(f.results.l, o.v),
                              Append(f.calls, Returned("agent_direct", o.v)))
      [] f.pc = "await_combine" ->
           IF o.exc # "none" THEN FrameFail(f, "combine_chain", o.exc, f.formatted_results)
           ELSE FrameRespond([f EXCEPT !.combined_result = o.v], "combine_chain", o.v,
                             EnsureStr(o.v.combined_answer))
      [] f.pc = "await_agent" ->
           IF o.exc # "none" THEN FrameFail(f, "agent", o.exc, PStr(<< >>))
           ELSE LET x == SimpleExtract(o.v) IN
                IF x.exc # "none"
                  THEN [f EXCEPT !.pc = "failed", !.error = [exc |-> x.exc],
                                 !.calls = Append(f.calls, Returned("agent", o.v))]
                  ELSE FrameRespond(f, "agent", o.v, x.v)

\* The locals request r's handler sees when it resumes, and the frames after
\* it ran to its next await with locals g.
Load(fs, r) == [fs[r] EXCEPT !.results = fs[ResultsOwner(r)].results]
Store(fs, r, g) == [[fs EXCEPT ![r] = g] EXCEPT ![ResultsOwner(r)].results = g.results]

\* main.py 48-62: request r arrives.
ConcChatRequest(r) ==
    /\ frames[r].pc = "idle"
    /\ frames' = [frames EXCEPT ![r] = FrameStart(ConcQuery(r))]
    /\ UNCHANGED <<chat_vars, tool_exec, module_objects>>

\* The call request r awaits at `at` ends; the event loop resumes r's handler.
ResumeRequest(r, at) ==
    /\ frames[r].pc = at
    /\ \E o \in FrameOutcomes(frames[r]) :
         frames' = Store(frames, r, Resume(Load(frames, r), o))
    /\ UNCHANGED <<chat_vars, tool_exec, module_objects>>

ConcClassifierReturn(r) == ResumeRequest(r, "await_classifier")
ConcDecompositionReturn(r) == ResumeRequest(r, "await_decomposition")
ConcDirectAgentReturn(r) == ResumeRequest(r, "await_direct")
ConcCombineReturn(r) == ResumeRequest(r, "await_combine")
ConcAgentReturn(r) == ResumeRequest(r, "await_agent")

NextConc ==
    \/ \E r \in Requests : ConcChatRequest(r)
    \/ \E r \in Requests : ConcClassifierReturn(r)
    \/ \E r \in Requests : ConcDecompositionReturn(r)
    \/ \E r \in Requests : ConcDirectAgentReturn(r)
    \/ \E r \in Requests : ConcCombineReturn(r)
    \/ \E r \in Requests : ConcAgentReturn(r)

SpecConc == Init /\ [][NextConc]_vars


\* ------------------------------------------------------------------ claims

\* The invocations of `target` made so far by the request, in order.
CallsTo(target) == SelectSeq(calls, LAMBDA c : c.ev = "call" /\ c.target = target)
\* The values `target` returned so far to the request, in order.
ReturnsOf(target) == SelectSeq(calls, LAMBDA c : c.ev = "return" /\ c.target = target)

Classified == classification_result # NoValue
ClassifiedSimple == Classified /\ ~classification_result.is_complex
ClassifiedComplex == Classified /\ classification_result.is_complex
Decomposed == ReturnsOf("decomposition_chain") # << >>

\* C1: in a request whose classification has is_complex = false, the
\* conversational agent is invoked exactly once, on the raw query, and the
\* Decomposition chain, the Combine chain and the direct agent are never
\* invoked.
C1_SimplePathCalls ==
    ClassifiedSimple =>
        /\ CallsTo("agent") = <<Called("agent", AgentInput(query))>>
        /\ CallsTo("decomposition_chain") = << >>
        /\ CallsTo("combine_chain") = << >>
        /\ CallsTo("agent_direct") = << >>

\* C1's case: a request classified simple has been answered.
C1_Witness == ClassifiedSimple /\ pc = "responded"

\* C2: in a request classified complex whose decomposition returned
\* sub_queries, the k-th direct-agent invocation receives sub_queries[k], the
\* invocations made so far are never more than the sub-queries, they are
\* exactly as many once the loop has ended (the Combine chain was invoked),
\* and the conversational agent is never invoked.
C2_DirectCallsFollowSubQueries ==
    ClassifiedComplex /\ Decomposed =>
        LET direct == CallsTo("agent_direct") IN
        /\ Len(direct) <= Len(decomposed_queries)
        /\ \A k \in 1..Len(direct) : direct[k].input = AgentInput(decomposed_queries[k])
        /\ CallsTo("combine_chain") # << >> => Len(direct) = Len(decomposed_queries)
        /\ pc = "responded" => Len(direct) = Len(decomposed_queries)
        /\ CallsTo("agent") = << >>

\* C2's case: a complex request with two different sub-queries was answered.
C2_Witness ==
    /\ pc = "responded"
    /\ ClassifiedComplex
    /\ Len(decomposed_queries) = 2
    /\ decomposed_queries[1] # decomposed_queries[2]

RECURSIVE LabelledBlocks(_, _)
\* The blocks "Ket qua {i}:\n{text}\n\n" for i = 1..n, in increasing order,
\* where texts[i] is the text for label i.
LabelledBlocks(texts, n) ==
    IF n = 0 THEN << >>
    ELSE LabelledBlocks(texts, n - 1)
         \o <<"Ket qua ", ToString(n), ":\n">> \o texts[n] \o <<"\n\n">>

\* C3: the text passed to the Combine chain is the concatenation, for
\* i = 1..n in increasing order, of the blocks "Ket qua {i}:\n{text}\n\n",
\* where n is the number of sub-queries and the text of block i is the one
\* extracted from what the i-th direct-agent invocation (the one made for
\* sub-query i) returned.
C3_CombineInputBlocks ==
    \A c \in 1..Len(calls) :
        calls[c].ev = "call" /\ calls[c].target = "combine_chain" =>
            LET returned == ReturnsOf("agent_direct")
                n == Len(decomposed_queries)
                texts == [i \in 1..Len(returned) |-> ComplexExtract(i, returned[i].value).v.s]
            IN  /\ Len(returned) = n
                /\ \A i \in 1..n :
                       CallsTo("agent_direct")[i].input = AgentInput(decomposed_queries[i])
                /\ calls[c].input.d["results"] = PStr(LabelledBlocks(texts, n))
                /\ calls[c].input.d["original_query"] = query

\* C3's case: the Combine chain was invoked with the results of two
\* sub-queries whose invocations returned different values.
C3_Witness ==
    /\ CallsTo("combine_chain") # << >>
    /\ Len(ReturnsOf("agent_direct")) = 2
    /\ ReturnsOf("agent_direct")[1].value # ReturnsOf("agent_direct")[2].value


\* The result of a direct-agent invocation that ended with a tool call: the
\* message list ends with the tool's message, or the flat 'output' field holds
\* the tool's text.
EndsWithToolResult(r) ==
    /\ IsDict(r)
    /\ \/ "output" \in DOMAIN r.d /\ IsStr(r.d["output"])
       \/ /\ "messages" \in DOMAIN r.d
          /\ IsList(r.d["messages"])
          /\ Len(r.d["messages"].l) > 0
          /\ r.d["messages"].l[Len(r.d["messages"].l)].t = "message"
          /\ r.d["messages"].l[Len(r.d["messages"].l)].role = "tool"

\* The last ToolResult of such an invocation.
LastToolResult(r) ==
    IF "output" \in DOMAIN r.d THEN r.d["output"]
    ELSE r.d["messages"].l[Len(r.d["messages"].l)].content

\* C4: on the complex path the text under label i of the Combine chain's
\* input is the last ToolResult of the i-th direct-agent invocation, verbatim,
\* whether the invocation returned a message list or a flat 'output' field.
C4_LabelTextIsToolResult ==
    \A c \in 1..Len(calls) :
        calls[c].ev = "call" /\ calls[c].target = "combine_chain" =>
            LET returned == ReturnsOf("agent_direct")
                texts == [i \in 1..Len(returned) |-> LastToolResult(returned[i].value).s]
            IN  (\A i \in 1..Len(returned) : EndsWithToolResult(returned[i].value))
                    => calls[c].input.d["results"] = PStr(LabelledBlocks(texts, Len(returned)))

\* C5: extraction of the agent's answer never aborts a request: a request
\* fails only when a chain or agent invocation raised, never after an agent
\* invocation returned a value, and a response always carries a string.
C5_ExtractionNeverAborts ==
    /\ pc = "failed" => calls[Len(calls)].ev = "raise"
    /\ pc = "responded" => IsStr(response.output)

Chains == {"classifier_chain", "decomposition_chain", "combine_chain"}

\* C9: a failure of the Classifier, Decomposition or Combine chain makes the
\* request fail: it is the request's last event (no chain or agent is invoked
\* after it), the handler has failed, and no response was returned, whatever
\* results were collected before.
C9_ChainFailureFailsRequest ==
    \A i \in 1..Len(calls) :
        calls[i].ev = "raise" /\ calls[i].target \in Chains =>
            /\ i = Len(calls)
            /\ pc = "failed"
            /\ response = NoResponse

\* C9's case: the Combine chain failed after two sub-query results were
\* collected.
C9_Witness ==
    /\ pc = "failed"
    /\ calls[Len(calls)].ev = "raise"
    /\ calls[Len(calls)].target = "combine_chain"
    /\ Len(ReturnsOf("agent_direct")) = 2

\* The Combine chain returned: every chain and agent invocation of a complex
\* request has completed.
CombineReturned == calls # << >> /\ calls[Len(calls)] \in
    {Returned("combine_chain", [combined_answer |-> a]) : a \in CombinedAnswers}

\* C10 (as claimed): for a complex query whose chains and agent invocations
\* all complete, /chat returns {"output": s} where s is a non-empty plain
\* string, whatever combined_answer the Combine chain produced.
C10_OutputNonEmptyString ==
    CombineReturned =>
        /\ pc = "responded"
        /\ IsStr(response.output)
        /\ response.output.s # << >>

\* C10 (amended): for a complex query whose chains and agent invocations all
\* complete, /chat returns {"output": s} where s is a plain string, never a
\* structured object: s is combined_answer itself when that is a string, and
\* its str() rendering otherwise; s is empty exactly when combined_answer is
\* the empty string.
C10_OutputIsString ==
    CombineReturned =>
        LET answer == combined_result.combined_answer IN
        /\ pc = "responded"
        /\ IsStr(response.output)
        /\ IsStr(answer) => response.output = answer
        /\ ~IsStr(answer) => response.output = PStr(Repr(answer))
        /\ response.output.s = << >> <=> answer = PStr(<< >>)

\* C10's case: the Combine chain produced a structured combined_answer and
\* the request was answered.
C10_Witness ==
    /\ CombineReturned
    /\ ~IsStr(combined_result.combined_answer)
    /\ pc = "responded"

\* ------------------------------------------------------ claims on the tools

Executed == tool_exec # NoToolExec

\* C6: every tool execution ends by returning a string, whatever the data
\* provider and the libraries did and whatever arguments reached _run: no
\* exception is raised to the caller.
C6_ToolsReturnStrings ==
    Executed => tool_exec.exec.ret.exc = "none" /\ IsStr(tool_exec.exec.ret.v)

\* C6's case: calculate_total_volume fetched rows and the summation raised
\* inside the try block.
C6_Witness ==
    /\ Executed
    /\ tool_exec.tool = "calculate_total_volume"
    /\ tool_exec.env.prov = "rows"
    /\ tool_exec.env.lib = "raise"
    /\ tool_exec.exec.work = <<"sum">>

OHLCVTools == {"view_ohlcv", "calculate_total_volume", "calculate_sma", "calculate_rsi"}

\* The supplied arguments are invalid.
InvalidInterval(a) == a.interval # Omitted /\ a.interval \notin Range(valid_intervals)
InvalidPeriod(a) == a.period.t = "int" /\ a.period.n <= 0
InvalidColumn(a) ==
    IsList(a.columns) /\ \E i \in 1..Len(a.columns.l) :
        a.columns.l[i] \notin Range(available_columns)

\* The first words of the validation-error strings.
ValidationErrors ==
    {"Khung thoi gian khong hop le. Cac khung thoi gian co san: ", "Chu ky ",
     "Cot khong hop le: "}

\* C7: invalid arguments never reach the data provider: for calculate_sma
\* and calculate_rsi with period <= 0, for an OHLCV-based tool with an
\* interval outside the valid ones, and for view_ohlcv with a column outside
\* the available ones, the tool returns a validation-error string and makes
\* no request to the provider.
C7_InvalidArgsNeverFetched ==
    Executed /\ tool_exec.tool \in OHLCVTools
    /\ (\/ InvalidInterval(tool_exec.args)
        \/ tool_exec.tool \in {"calculate_sma", "calculate_rsi"} /\ InvalidPeriod(tool_exec.args)
        \/ tool_exec.tool = "view_ohlcv" /\ InvalidColumn(tool_exec.args))
    =>  /\ tool_exec.exec.requests = << >>
        /\ tool_exec.exec.ret.exc = "none"
        /\ IsStr(tool_exec.exec.ret.v)
        /\ tool_exec.exec.ret.v.s[1] \in ValidationErrors

\* C7's case: calculate_sma was executed with period = 0 and a valid
\* interval, while the provider had rows to return.
C7_Witness ==
    /\ Executed
    /\ tool_exec.tool = "calculate_sma"
    /\ tool_exec.args.period = PInt(0)
    /\ ~InvalidInterval(tool_exec.args)
    /\ tool_exec.env.prov = "rows"

\* C8: each tool's asynchronous entry point behaves as its synchronous one:
\* on the same supplied arguments (omitted ones included) and the same
\* provider behaviour, _arun returns the same result and makes the same
\* provider requests as _run.
C8_ArunLikeRun ==
    Executed /\ tool_exec.entry = "_arun" =>
        LET sync == RunEntry(tool_exec.tool, "_run", tool_exec.args, tool_exec.env) IN
        /\ tool_exec.exec.ret = sync.ret
        /\ tool_exec.exec.requests = sync.requests

\* ------------------------------------------- claims on the order of events

\* The direct-agent invocations started, and those ended (by a return or an
\* exception), among the first n events of the request.
DirectStarted(n) ==
    Cardinality({i \in 1..n : calls[i].ev = "call" /\ calls[i].target = "agent_direct"})
DirectReturned(n) ==
    Cardinality({i \in 1..n : calls[i].ev = "return" /\ calls[i].target = "agent_direct"})
DirectEnded(n) ==
    Cardinality({i \in 1..n : calls[i].ev # "call" /\ calls[i].target = "agent_direct"})

\* C11: within one complex request the direct-agent invocations are strictly
\* sequential.  An invocation is the event that follows the return of the
\* one before it (or of the Decomposition chain, for the first), and its own
\* end is the very next event, so that at most one is in flight at any time
\* and the invocation for sub-query k+1 starts only after the one for
\* sub-query k has returned; the Combine chain is invoked only after the
\* invocation for the last sub-query has returned.
C11_SubQueriesSequential ==
    /\ DirectStarted(Len(calls)) - DirectEnded(Len(calls)) \in {0, 1}
    /\ \A n \in 1..Len(calls) :
        /\ calls[n].ev = "call" /\ calls[n].target = "agent_direct" =>
               /\ n > 1
               /\ calls[n - 1].ev = "return"
               /\ calls[n - 1].target \in {"agent_direct", "decomposition_chain"}
               /\ n < Len(calls) =>
                      calls[n + 1].ev # "call" /\ calls[n + 1].target = "agent_direct"
        /\ calls[n].ev = "call" /\ calls[n].target = "combine_chain" =>
               /\ DirectStarted(n) = Len(decomposed_queries)
               /\ DirectReturned(n) = Len(decomposed_queries)
               /\ calls[n - 1].ev = "return"
               /\ Len(decomposed_queries) > 0 => calls[n - 1].target = "agent_direct"

\* C11's case: the second sub-query's invocation is in flight after the
\* first one returned.
C11_Witness ==
    /\ pc = "await_direct"
    /\ DirectStarted(Len(calls)) = 2
    /\ DirectReturned(Len(calls)) = 1


\* ------------------------------------------- claims on concurrent requests

\* What the awaited calls of a request produced, in order, as its events
\* record them.
OutcomesIn(log) ==
    LET ended == SelectSeq(log, LAMBDA c : c.ev # "call")
    IN  [i \in 1..Len(ended) |->
            IF ended[i].ev = "return" THEN Ok(ended[i].value) ELSE Raise(ended[i].value.exc)]

RECURSIVE ServedAlone(_, _)
\* The frame of a request served alone from frame f whose awaited calls
\* produce outcomes, one after the other; "diverged" when an outcome is none
\* that the call awaited at that point can produce.
ServedAlone(f, outcomes) ==
    IF outcomes = << >> THEN f
    ELSE IF Head(outcomes) \in FrameOutcomes(f)
           THEN ServedAlone(Resume(f, Head(outcomes)), Tail(outcomes))
           ELSE [f EXCEPT !.pc = "diverged"]

\* The values the direct agent returned to the call of frame f, in order.
FrameDirectReturns(f) ==
    LET returned == SelectSeq(f.calls, LAMBDA c : c.ev = "return" /\ c.target = "agent_direct")
    IN  [i \in 1..Len(returned) |-> returned[i].value]

\* C12: concurrent requests do not interfere.  Under every interleaving of
\* the requests at their awaits, the results list of a request holds exactly
\* the values its own direct-agent invocations returned, each an answer to
\* its own sub-query of that position; its Combine input is built from its
\* own query and these values; its locals, its events and its response are
\* those of a run in which it is served alone with the same outcomes of its
\* awaited calls; and the module's llm, agents and chains are never changed.
C12_RequestsIsolated ==
    /\ module_objects = ModuleObjects
    /\ \A r \in Requests :
         LET f == frames[r] IN
         /\ f = IF f.calls = << >> THEN IdleFrame
                ELSE ServedAlone(FrameStart(ConcQuery(r)), OutcomesIn(f.calls))
         /\ f.pc # "idle" => f.query = ConcQuery(r)
         /\ f.results # NoValue =>
              /\ f.results.l = FrameDirectReturns(f)
              /\ \A i \in 1..Len(f.results.l) :
                     f.results.l[i].d["messages"].l[1].content = f.decomposed_queries.l[i]
         /\ \A c \in 1..Len(f.calls) :
              f.calls[c].ev = "call" /\ f.calls[c].target = "combine_chain" =>
                  f.calls[c].input = PDict("original_query" :> ConcQuery(r)
                                           @@ "results" :> FormatResults(FrameDirectReturns(f)))

\* C12's case: two complex requests are in the middle of their loops at the
\* same time, each holding one result and awaiting its second sub-query.
C12_Witness ==
    /\ frames[1].pc = "await_direct"
    /\ frames[2].pc = "await_direct"
    /\ Len(frames[1].results.l) = 1
    /\ Len(frames[2].results.l) = 1
    /\ frames[1].results.l # frames[2].results.l


\* The texts a complex request holds when its n-th event happens: the
\* original query and what was extracted from the results collected so far.
TextsHeldBefore(n) ==
    LET returned == SelectSeq(SubSeq(calls, 1, n - 1),
                              LAMBDA c : c.ev = "return" /\ c.target = "agent_direct")
    IN  {query} \cup {ComplexExtract(i, returned[i].value).v : i \in 1..Len(returned)}

\* C13: each direct-agent invocation of a complex request is independent: the
\* input of the invocation for sub-query k is a dict with the one key
\* 'messages', whose value is a list of exactly one message, of role 'user'
\* and with content sub_queries[k]; neither the original query nor the text
\* of a result of sub-queries 1..k-1 is the content of a message of it
\* (unless the decomposition named that very text as sub_queries[k]).
C13_DirectInputIsOneUserMessage ==
    \A n \in 1..Len(calls) :
        calls[n].ev = "call" /\ calls[n].target = "agent_direct" =>
            LET k == DirectStarted(n)
                input == calls[n].input
                held == TextsHeldBefore(n)
            IN  /\ IsDict(input)
                /\ DOMAIN input.d = {"messages"}
                /\ IsList(input.d["messages"])
                /\ Len(input.d["messages"].l) = 1
                /\ \A j \in 1..Len(input.d["messages"].l) :
                     LET message == input.d["messages"].l[j] IN
                     /\ IsDict(message)
                     /\ DOMAIN message.d = {"role", "content"}
                     /\ message.d["role"] = PStr(<<"user">>)
                     /\ message.d["content"] = decomposed_queries[k]
                     /\ decomposed_queries[k] \notin held =>
                            message.d["content"] \notin held

\* C13's case: the invocation for the second sub-query is made after the
\* first one returned a message list ending with a tool's text.
C13_Witness ==
    /\ calls # << >>
    /\ calls[Len(calls)].ev = "call"
    /\ calls[Len(calls)].target = "agent_direct"
    /\ Len(results) = 1
    /\ EndsWithToolResult(results[1])
    /\ "messages" \in DOMAIN results[1].d


\* C14: when the data provider answers the request of an OHLCV-based tool
\* with None or with an empty table, the tool returns the 'no data found'
\* message, which names the symbol, the start date and the end date of the
\* request made (the supplied ones, start > end included), and no column
\* filtering, summation, indicator calculation or serialization is done.
C14_NoDataMessageNamesRequest ==
    Executed /\ tool_exec.tool \in OHLCVTools
    /\ tool_exec.env.prov \in {"none", "empty"}
    /\ tool_exec.exec.requests # << >>
    =>  LET ret == tool_exec.exec.ret
            request == tool_exec.exec.requests[1]
        IN  /\ Len(tool_exec.exec.requests) = 1
            /\ request.api = "history"
            /\ request.symbol = tool_exec.args.symbol
            /\ tool_exec.args.start # Omitted => request.start = tool_exec.args.start
            /\ tool_exec.args.end # Omitted => request.end = tool_exec.args.end
            /\ ret.exc = "none"
            /\ IsStr(ret.v)
            /\ Len(ret.v.s) >= 6
            /\ ret.v.s[1] = "Khong tim thay du lieu OHLCV cho ma "
            /\ ret.v.s[2] = request.symbol
            /\ ret.v.s[3] = " tu "
            /\ ret.v.s[4] = request.start
            /\ ret.v.s[5] = " den "
            /\ ret.v.s[6] = request.end
            /\ tool_exec.exec.work = << >>

\* C14's case: calculate_rsi was asked for an unlisted symbol with
\* start > end, and the provider returned an empty table.
C14_Witness ==
    /\ Executed
    /\ tool_exec.tool = "calculate_rsi"
    /\ tool_exec.env.prov = "empty"
    /\ tool_exec.args.symbol = "XXX"
    /\ tool_exec.args.start = "2024-12-01"
    /\ tool_exec.args.end = "2024-11-13"
    /\ tool_exec.exec.requests # << >>


\* C15: when an agent's reasoning loop exhausts its step budget, the
\* invocation ends with an answer and not with an error: no agent invocation
\* of a request ends by raising the step-limit exception, and no request
\* fails because of it (the request goes on to its response).
C15_StepBudgetExhaustionAnswered ==
    /\ \A n \in 1..Len(calls) :
           calls[n].target \in {"agent", "agent_direct"} /\ calls[n].ev = "raise" =>
               calls[n].value.exc # "GraphRecursionError"
    /\ pc = "failed" => error # [exc |-> "GraphRecursionError"]


\* The positions in the request's events of the invocations of `target`, and
\* of all that ever happened with it.
CallIndexes(target) ==
    {n \in 1..Len(calls) : calls[n].ev = "call" /\ calls[n].target = target}
EventIndexes(target) == {n \in 1..Len(calls) : calls[n].target = target}

\* C16: a request goes Received -> Classifying -> (SimplePath | ComplexPath)
\* -> Responded.  Its first event is the one invocation of the Classifier
\* chain, which has ended before any other chain or agent is invoked; the
\* path follows the classification and the two paths exclude each other; on
\* the complex path the Decomposition chain is invoked once and has returned
\* before the first direct-agent invocation, and the Combine chain is invoked
\* at most once, after every direct-agent invocation has returned; a request
\* that was answered has taken exactly one path to its end, with exactly one
\* Combine invocation if the path is the complex one.
C16_RequestOrder ==
    calls # << >> =>
        /\ calls[1] = Called("classifier_chain", PDict("query" :> query))
        /\ CallIndexes("classifier_chain") = {1}
        /\ Len(calls) >= 2 => calls[2].target = "classifier_chain" /\ calls[2].ev # "call"
        /\ pc = "await_classifier" <=> Len(calls) = 1
        /\ pc = "await_agent" => ClassifiedSimple
        /\ pc \in {"await_decomposition", "await_direct", "await_combine"} => ClassifiedComplex
        /\ ClassifiedSimple =>
              /\ Cardinality(CallIndexes("agent")) = 1
              /\ EventIndexes("decomposition_chain") \cup EventIndexes("agent_direct")
                    \cup EventIndexes("combine_chain") = {}
        /\ ClassifiedComplex =>
              /\ CallIndexes("decomposition_chain") = {3}
              /\ EventIndexes("agent") = {}
              /\ Cardinality(CallIndexes("combine_chain")) <= 1
              /\ \A n \in EventIndexes("agent_direct") \cup EventIndexes("combine_chain") :
                     n > 4 /\ calls[4] = Returned("decomposition_chain",
                                                  [sub_queries |-> decomposed_queries])
              /\ \A c \in CallIndexes("combine_chain") :
                     /\ \A n \in EventIndexes("agent_direct") : n < c
                     /\ DirectReturned(c) = DirectStarted(c)
        /\ ~Classified => EventIndexes("agent") \cup EventIndexes("decomposition_chain") = {}
        /\ pc = "responded" =>
              /\ Classified
              /\ ClassifiedSimple => calls[Len(calls)].target = "agent"
              /\ ClassifiedComplex =>
                    /\ Cardinality(CallIndexes("combine_chain")) = 1
                    /\ calls[Len(calls)].target = "combine_chain"
              /\ calls[Len(calls)].ev = "return"

\* C16's case: a complex request with two sub-queries went through all its
\* phases and was answered.
C16_Witness ==
    /\ pc = "responded"
    /\ ClassifiedComplex
    /\ Cardinality(CallIndexes("agent_direct")) = 2
    /\ Cardinality(CallIndexes("combine_chain")) = 1


\* C17: when the decomposition of a complex query returns an empty sub-query
\* list, no direct-agent invocation is made and the Combine chain is invoked
\* exactly once, with the original query and the empty string as results,
\* and the request is answered with that chain's combined_answer.  Whatever
\* the list, it is used as the Decomposition chain returned it: the handler's
\* list is the returned one and the direct-agent invocations follow it
\* element by element, duplicates included.
C17_EmptyDecompositionStillCombines ==
    ClassifiedComplex /\ Decomposed =>
        LET returned == ReturnsOf("decomposition_chain")[1].value.sub_queries
            direct == CallsTo("agent_direct")
            last == calls[Len(calls)]
        IN  /\ decomposed_queries = returned
            /\ Len(direct) <= Len(returned)
            /\ \A k \in 1..Len(direct) :
                   direct[k].input.d["messages"].l[1].d["content"] = returned[k]
            /\ returned = << >> =>
                 /\ direct = << >>
                 /\ CallsTo("agent") = << >>
                 /\ CallsTo("combine_chain") =
                        <<Called("combine_chain", PDict("original_query" :> query
                                                        @@ "results" :> PStr(<< >>)))>>
                 /\ pc \in {"await_combine", "responded", "failed"}
                 /\ pc = "failed" => last.ev = "raise" /\ last.target = "combine_chain"
                 /\ pc = "responded" =>
                      /\ last.ev = "return" /\ last.target = "combine_chain"
                      /\ IsStr(last.value.combined_answer) =>
                             response = [output |-> last.value.combined_answer]
                      /\ ~IsStr(last.value.combined_answer) =>
                             response = [output |-> PStr(Repr(last.value.combined_answer))]

\* C17's case: a complex request whose decomposition named no sub-query was
\* answered.
C17_Witness ==
    /\ pc = "responded"
    /\ ClassifiedComplex
    /\ Decomposed
    /\ ReturnsOf("decomposition_chain")[1].value.sub_queries = << >>


=============================================================================
